---------------------------- MODULE Spec2Model ----------------------------
(***************************************************************************)
(* A model of haikus/haikutext.py and haikus/evaluators.py (Python 2).     *)
(*                                                                         *)
(* Strings are sequences of one-character strings, so that filtering,      *)
(* splitting, lower-casing and joining are computed character by           *)
(* character as the code does.  Python's 0-based indexes are kept in the   *)
(* finder; a Python index p is element p + 1 of a TLA+ sequence.           *)
(***************************************************************************)
EXTENDS Integers, Sequences, FiniteSets, TLC

VARIABLES
    text,   \* HaikuText._text
    op,     \* name of the method called last ("init" after construction)
    args,   \* arguments of that call (the evaluators of calculate_quality)
    self,   \* the Haiku a Haiku method was called on, else PyNone
    idx,    \* where the caller took self from: 0 get_haiku(), j the j-th
            \* element of get_haikus()
    ret     \* value returned by the call

vars == <<text, op, args, self, idx, ret>>

(***************************************************************************)
(* Bounds of the model.                                                    *)
(***************************************************************************)
MaxWords == 5
MaxEvaluators == 2
MaxWeight == 2

(***************************************************************************)
(* Python values.                                                          *)
(***************************************************************************)
PyNone == [cls |-> "NoneType"]
PyFalse == [cls |-> "bool", value |-> FALSE]
NonwordError == [cls |-> "NonwordError"]

\* class Haiku: set_lines stores the lines
Haiku(lines) == [cls |-> "Haiku", lines |-> lines]

IsHaikuObject(v) == v.cls = "Haiku"

(***************************************************************************)
(* Characters.                                                             *)
(***************************************************************************)
ascii_uppercase ==
    <<"A","B","C","D","E","F","G","H","I","J","K","L","M",
      "N","O","P","Q","R","S","T","U","V","W","X","Y","Z">>

ascii_lowercase ==
    <<"a","b","c","d","e","f","g","h","i","j","k","l","m",
      "n","o","p","q","r","s","t","u","v","w","x","y","z">>

digits == {"0","1","2","3","4","5","6","7","8","9"}

\* string.punctuation (without the backquote, which a TLA+ string cannot hold
\* and no text of the model contains)
punctuation ==
    { "!", "\"", "#", "$", "%", "&", "'", "(", ")", "*", "+", ",", "-", ".",
      "/", ":", ";", "<", "=", ">", "?", "@", "[", "\\", "]", "^", "_",
      "{", "|", "}", "~" }

whitespace == {" ", "\t", "\n", "\r"}

Range(s) == {s[i] : i \in 1..Len(s)}

ascii ==
    Range(ascii_uppercase) \cup Range(ascii_lowercase) \cup digits
        \cup punctuation \cup whitespace

IsAscii(c) == c \in ascii

\* set(string.punctuation).difference(set("'"))
exclude == punctuation \ {"'"}

NotExcluded(ch) == ch \notin exclude

\* the lower-case letter of each upper-case letter
lowercase_of == [c \in Range(ascii_uppercase) |->
                    ascii_lowercase[CHOOSE i \in 1..26 : ascii_uppercase[i] = c]]

\* str.lower(), one character
LowerChar(c) == IF c \in DOMAIN lowercase_of THEN lowercase_of[c] ELSE c

\* str.lower()
lower(s) == [i \in 1..Len(s) |-> LowerChar(s[i])]

\* unicode.encode('ascii', 'ignore')
encode_ascii_ignore(s) == SelectSeq(s, IsAscii)

RECURSIVE lstrip(_)
lstrip(s) ==
    IF s # <<>> /\ Head(s) \in whitespace THEN lstrip(Tail(s)) ELSE s

RECURSIVE rstrip(_)
rstrip(s) ==
    IF s # <<>> /\ s[Len(s)] \in whitespace
    THEN rstrip(SubSeq(s, 1, Len(s) - 1))
    ELSE s

\* str.strip()
strip(s) == rstrip(lstrip(s))

\* str.split(): split on runs of whitespace, no empty strings
RECURSIVE SplitWs(_, _, _, _)
SplitWs(s, i, cur, acc) ==
    IF i > Len(s)
    THEN IF cur = <<>> THEN acc ELSE Append(acc, cur)
    ELSE IF s[i] \in whitespace
         THEN SplitWs(s, i + 1, <<>>, IF cur = <<>> THEN acc ELSE Append(acc, cur))
         ELSE SplitWs(s, i + 1, Append(cur, s[i]), acc)

split(s) == SplitWs(s, 1, <<>>, <<>>)

\* str.split(" "): split on every single space, empty strings kept
RECURSIVE SplitSp(_, _, _, _)
SplitSp(s, i, cur, acc) ==
    IF i > Len(s)
    THEN Append(acc, cur)
    ELSE IF s[i] = " "
         THEN SplitSp(s, i + 1, <<>>, Append(acc, cur))
         ELSE SplitSp(s, i + 1, Append(cur, s[i]), acc)

split_space(s) == SplitSp(s, 1, <<>>, <<>>)

\* ' '.join(words)
RECURSIVE join(_)
join(words) ==
    IF words = <<>> THEN <<>>
    ELSE IF Len(words) = 1 THEN words[1]
    ELSE words[1] \o <<" ">> \o join(Tail(words))

(***************************************************************************)
(* The pronunciation dictionary (cmudict), a sample of it: word -> list of *)
(* transcriptions, each a list of phonemes; vowels carry a stress digit.   *)
(***************************************************************************)
w_university == <<"u","n","i","v","e","r","s","i","t","y">>
w_hm == <<"h","m">>
w_its == <<"i","t","'","s">>
w_foobaz == <<"f","o","o","b","a","z">>
w_zzz == <<"z","z","z">>

WORD_DICT ==
    (w_university :>
        << << <<"Y">>, <<"U","W","2">>, <<"N">>, <<"A","H","0">>, <<"V">>,
              <<"E","R","1">>, <<"S">>, <<"A","H","0">>, <<"T">>,
              <<"I","Y","0">> >> >>)
    @@
    (w_hm :> << << <<"H","H">>, <<"M">> >> >>)
    @@
    (w_its :> << << <<"I","H","1">>, <<"T">>, <<"S">> >>,
                 << <<"I","H","0">>, <<"T">>, <<"S">> >> >>)

\* phoneme[-1].isdigit()
EndsInDigit(phoneme) == phoneme[Len(phoneme)] \in digits

(***************************************************************************)
(* nltk_util.syllables_en.count: the fallback estimate for a word that is  *)
(* not in the dictionary, counting groups of vowels.                       *)
(***************************************************************************)
vowels == {"a","e","i","o","u","y"}

RECURSIVE VowelGroups(_, _)
VowelGroups(s, prevVowel) ==
    IF s = <<>> THEN 0
    ELSE LET v == Head(s) \in vowels
         IN (IF v /\ ~prevVowel THEN 1 ELSE 0) + VowelGroups(Tail(s), v)

syllables_en_count(word) ==
    LET w == lower(word)
        w2 == IF w # <<>> /\ w[Len(w)] = "e" THEN SubSeq(w, 1, Len(w) - 1) ELSE w
    IN VowelGroups(w2, FALSE)

(***************************************************************************)
(* class HaikuText                                                         *)
(***************************************************************************)
\* filtered_text: strip punctuation (the apostrophe excepted) from the text
filtered_text(t) == SelectSeq(t, NotExcluded)

\* filtered_word: strip punctuation from one token
filtered_word(word) == SelectSeq(word, NotExcluded)

\* The variant of unknown_word_handler that gives a word without syllables
\* one syllable instead of raising.
unknown_word_handler_floor(word) ==
    LET syllable_count == syllables_en_count(filtered_word(word))
    IN IF syllable_count > 0 THEN <<syllable_count, word>> ELSE <<1, word>>

\* unknown_word_handler: estimate the count, raise NonwordError at zero
unknown_word_handler(word) ==
    LET syllable_count == syllables_en_count(filtered_word(word))
    IN IF syllable_count > 0 THEN <<syllable_count, word>> ELSE NonwordError

\* The variant of word_syllables that returns the token as given, the
\* lower-cased form being used for the lookup only.
word_syllables_keepcase(word0) ==
    LET word == lower(strip(encode_ascii_ignore(word0)))
    IN IF word \in DOMAIN WORD_DICT
       THEN LET tree == WORD_DICT[word][1]
            IN <<Len(SelectSeq(tree, EndsInDigit)), word0>>
       ELSE LET r == unknown_word_handler(word)
            IN IF r = NonwordError THEN r ELSE <<r[1], word0>>

\* word_syllables: (syllable count, word) from the first transcription of
\* the dictionary, else from unknown_word_handler; the word returned is
\* the lower-cased one
word_syllables(word0) ==
    LET word == lower(strip(encode_ascii_ignore(word0)))
    IN IF word \in DOMAIN WORD_DICT
       THEN LET tree == WORD_DICT[word][1]
            IN <<Len(SelectSeq(tree, EndsInDigit)), word>>
       ELSE unknown_word_handler(word)

\* syllable_map: map(word_syllables, filtered_text().split()), and [] when
\* a word raised NonwordError
syllable_map(t) ==
    LET words == split(filtered_text(t))
        mapped == [i \in 1..Len(words) |-> word_syllables(words[i])]
    IN IF \E i \in 1..Len(words) : mapped[i] = NonwordError
       THEN <<>>
       ELSE mapped

RECURSIVE SumCounts(_)
\* sum(word[0] for word in portion)
SumCounts(portion) ==
    IF portion = <<>> THEN 0 ELSE portion[1][1] + SumCounts(Tail(portion))

\* syllable_count
syllable_count(t) == SumCounts(syllable_map(t))

(***************************************************************************)
(* The finder.                                                             *)
(***************************************************************************)
\* The targets with the last one a syllable short.
haiku_short == <<5, 12, 16>>

\* haiku = [5, 12, 17]: the cumulative totals that end the three lines
haiku == <<5, 12, 17>>

\* cumulative = [0]; cumulative.append(cumulative[-1] + w[0]); cumulative[1:]
RECURSIVE CumulativeFrom(_, _)
CumulativeFrom(sm, last) ==
    IF sm = <<>> THEN <<>>
    ELSE <<last + sm[1][1]>> \o CumulativeFrom(Tail(sm), last + sm[1][1])

cumulative_of(sm) == CumulativeFrom(sm, 0)

\* is_haiku = set(cumulative).intersection(haiku) == set(haiku)
is_haiku(cumulative) == (Range(cumulative) \cap Range(haiku)) = Range(haiku)

\* lookup = dict((v, k) for k, v in enumerate(cumulative)): the last index
\* (0-based) at which each cumulative value stands
lookup_of(cumulative) ==
    [v \in Range(cumulative) |->
        CHOOSE k \in 0..(Len(cumulative) - 1) :
            /\ cumulative[k + 1] = v
            /\ \A j \in 0..(Len(cumulative) - 1) : cumulative[j + 1] = v => j <= k]

\* syllable_map[start:stop]
Slice(sm, start, stop) ==
    LET hi == IF stop > Len(sm) THEN Len(sm) ELSE stop
    IN SubSeq(sm, start + 1, hi)

\* The section cut one word short.
section_short(sm, start, lookup, line) == Slice(sm, start, lookup[line])

\* section = syllable_map[start:lookup[line]+1]
section(sm, start, lookup, line) == Slice(sm, start, lookup[line] + 1)

\* start = enum_lookup[lookup[line] + 1][0], where enum_lookup is
\* list(enumerate(lookup)): the index itself when it is below the number of
\* keys of lookup; beyond it IndexError is passed over and start is kept
next_start(start, lookup, line) ==
    IF lookup[line] + 1 < Cardinality(DOMAIN lookup)
    THEN lookup[line] + 1
    ELSE start

\* words = [s[1] for s in section]
words_of(sec) == [i \in 1..Len(sec) |-> sec[i][2]]

\* for line in haiku: ... lines.append(' '.join(words))
RECURSIVE build_lines(_, _, _, _, _)
build_lines(sm, lookup, targets, start, lines) ==
    IF targets = <<>> THEN lines
    ELSE LET line == Head(targets)
             sec == section(sm, start, lookup, line)
         IN build_lines(sm, lookup, Tail(targets),
                        next_start(start, lookup, line),
                        Append(lines, join(words_of(sec))))

\* find_haiku: a Haiku when the cumulative totals hold 5, 12 and 17, else
\* False
find_haiku(sm) ==
    LET cumulative == cumulative_of(sm)
    IN IF is_haiku(cumulative)
       THEN Haiku(build_lines(sm, lookup_of(cumulative), haiku, 0, <<>>))
       ELSE PyFalse

\* The variant of get_haiku that goes on to later start offsets.
get_haiku_scan(t) ==
    LET sm == syllable_map(t)
        found == {i \in 0..(Len(sm) - 1) :
                     IsHaikuObject(find_haiku(Slice(sm, i, Len(sm))))}
    IN IF found = {} THEN PyFalse
       ELSE find_haiku(Slice(sm, CHOOSE i \in found : \A j \in found : i <= j,
                             Len(sm)))

\* get_haiku: find a haiku at the beginning of the text
get_haiku(t) == find_haiku(syllable_map(t))

\* The test with the comparison strict.
enough_strict(portion) == SumCounts(portion) > 17

\* sum(word[0] for word in portion) >= 17
enough(portion) == SumCounts(portion) >= 17

\* for i in range(len(syllable_map)): ... else: break
RECURSIVE get_haikus_loop(_, _, _)
get_haikus_loop(sm, i, haikus) ==
    IF i >= Len(sm) THEN haikus
    ELSE LET portion == Slice(sm, i, Len(sm))
         IN IF enough(portion)
            THEN LET h == find_haiku(portion)
                 IN get_haikus_loop(sm, i + 1,
                        IF IsHaikuObject(h) THEN Append(haikus, h) ELSE haikus)
            ELSE haikus

\* get_haikus: find all haikus in the text
get_haikus(t) == get_haikus_loop(syllable_map(t), 0, <<>>)

\* has_haiku: self.get_haiku() is not False
has_haiku(t) == get_haiku(t) # PyFalse

(***************************************************************************)
(* class Haiku                                                             *)
(***************************************************************************)
\* line_end_bigrams: the words on both sides of the two line breaks
line_end_bigrams(h) ==
    LET lines == [i \in 1..Len(h.lines) |-> split_space(h.lines[i])]
    IN IF Len(lines) < 3
       THEN << <<"", "">>, <<"", "">> >>
       ELSE << <<lines[1][Len(lines[1])], lines[2][1]>>,
               <<lines[2][Len(lines[2])], lines[3][1]>> >>

\* flattened_lines
flattened_lines(h) == join(h.lines)

(***************************************************************************)
(* Evaluators.  An evaluator class is HaikuEvaluator, whose evaluate       *)
(* returns 100, or a subclass whose evaluate returns another score, as the *)
(* tests' MediocreHaikuEvaluator (50); a class is named by its score.      *)
(***************************************************************************)
Scores == {0, 33, 50, 100}

EvaluatorClasses == [evaluate : Scores]

\* HaikuEvaluator.__init__
NewEvaluator(evaluator_class, weight) ==
    [weight |-> weight, evaluate |-> evaluator_class.evaluate]

\* __call__ without the weight.
call_unweighted(evaluator, comment) == evaluator.evaluate

\* HaikuEvaluator.__call__: self.weight * self.evaluate(comment)
call(evaluator, comment) == evaluator.weight * evaluator.evaluate

\* The number of evaluators in place of their weights.
total_count(evaluators) == Len(evaluators)

RECURSIVE SumWeights(_)
SumWeights(evaluators) ==
    IF evaluators = <<>> THEN 0
    ELSE evaluators[1][2] + SumWeights(Tail(evaluators))

\* sum([weight for evaluator, weight in evaluators])
total_weight(evaluators) == SumWeights(evaluators)

\* for evaluator_class, weight in evaluators: score += evaluator(self)
RECURSIVE score_loop(_, _, _)
score_loop(h, evaluators, score) ==
    IF evaluators = <<>> THEN score
    ELSE score_loop(h, Tail(evaluators),
                    score + call(NewEvaluator(evaluators[1][1], evaluators[1][2]), h))

\* calculate_quality: the score divided by the sum of the weights (Python 2
\* integer division), left as it is when that sum is zero
calculate_quality(h, evaluators) ==
    LET score == score_loop(h, evaluators, 0)
        total == total_weight(evaluators)
    IN IF total = 0 THEN score ELSE score \div total

(***************************************************************************)
(* The texts of the model: up to MaxWords tokens separated by one space.   *)
(***************************************************************************)
Vocabulary ==
    { <<"U","n","i","v","e","r","s","i","t","y",",">>,   \* 5 syllables
      w_foobaz,                                          \* estimated: 2
      w_hm,                                              \* 0 syllables
      w_its,                                             \* 1 syllable
      w_zzz,                                             \* estimated: 0
      <<".",".",".">> }                                  \* no word at all

Texts ==
    { join(ts) : ts \in UNION { [1..n -> Vocabulary] : n \in 0..MaxWords } }

(***************************************************************************)
(* Operations.                                                             *)
(***************************************************************************)
Init ==
    /\ text \in Texts
    /\ op = "init"
    /\ args = <<>>
    /\ self = PyNone
    /\ idx = 0
    /\ ret = PyNone

SyllableMap ==
    /\ op = "init"
    /\ op' = "syllable_map"
    /\ ret' = syllable_map(text)
    /\ UNCHANGED <<text, args, self, idx>>

SyllableCount ==
    /\ op = "init"
    /\ op' = "syllable_count"
    /\ ret' = syllable_count(text)
    /\ UNCHANGED <<text, args, self, idx>>

GetHaiku ==
    /\ op = "init"
    /\ op' = "get_haiku"
    /\ ret' = get_haiku(text)
    /\ UNCHANGED <<text, args, self, idx>>

GetHaikus ==
    /\ op = "init"
    /\ op' = "get_haikus"
    /\ ret' = get_haikus(text)
    /\ UNCHANGED <<text, args, self, idx>>

HasHaiku ==
    /\ op = "init"
    /\ op' = "has_haiku"
    /\ ret' = has_haiku(text)
    /\ UNCHANGED <<text, args, self, idx>>

\* line_end_bigrams() on the Haiku get_haiku() returned
LineEndBigramsFirst ==
    /\ op = "get_haiku"
    /\ IsHaikuObject(ret)
    /\ op' = "line_end_bigrams"
    /\ self' = ret
    /\ idx' = 0
    /\ ret' = line_end_bigrams(ret)
    /\ UNCHANGED <<text, args>>

\* line_end_bigrams() on one of the Haikus get_haikus() returned
LineEndBigramsOfAll ==
    /\ op = "get_haikus"
    /\ \E j \in 1..Len(ret) :
        /\ op' = "line_end_bigrams"
        /\ self' = ret[j]
        /\ idx' = j
        /\ ret' = line_end_bigrams(ret[j])
    /\ UNCHANGED <<text, args>>

Next ==
    \/ SyllableMap
    \/ SyllableCount
    \/ GetHaiku
    \/ GetHaikus
    \/ HasHaiku
    \/ LineEndBigramsFirst
    \/ LineEndBigramsOfAll

Spec == Init /\ [][Next]_vars

(***************************************************************************)
(* Scoring a Haiku: the Haiku found at the start of a sample text, and     *)
(* calculate_quality called on it with every ensemble of the bounds.       *)
(***************************************************************************)
SampleText ==
    join(<< <<"U","n","i","v","e","r","s","i","t","y",",">>, w_foobaz,
            <<"U","n","i","v","e","r","s","i","t","y",",">>,
            <<"U","n","i","v","e","r","s","i","t","y",",">> >>)

Ensembles ==
    UNION { [1..n -> EvaluatorClasses \X (0..MaxWeight)] : n \in 0..MaxEvaluators }

InitQuality ==
    /\ text = SampleText
    /\ op = "get_haiku"
    /\ args = <<>>
    /\ self = PyNone
    /\ idx = 0
    /\ ret = get_haiku(SampleText)

CalculateQuality ==
    /\ op = "get_haiku"
    /\ IsHaikuObject(ret)
    /\ \E evaluators \in Ensembles :
        /\ op' = "calculate_quality"
        /\ args' = evaluators
        /\ self' = ret
        /\ ret' = calculate_quality(ret, evaluators)
    /\ UNCHANGED <<text, idx>>

NextQuality == CalculateQuality

SpecQuality == InitQuality /\ [][NextQuality]_vars

(***************************************************************************)
(* Vocabulary of the properties, defined apart from the finder's code.     *)
(***************************************************************************)
\* the tokens of the text, as syllable_map splits them
Tokens(t) == split(filtered_text(t))

\* sum of the syllable counts of the first k entries
RECURSIVE PrefixSum(_, _)
PrefixSum(sm, k) == IF k = 0 THEN 0 ELSE PrefixSum(sm, k - 1) + sm[k][1]

\* some word boundary of sm stands at the cumulative total v
Hits(sm, v) == \E k \in 1..Len(sm) : PrefixSum(sm, k) = v

\* the cumulative totals of sm hold 5, 12 and 17
Aligned(sm) == Hits(sm, 5) /\ Hits(sm, 12) /\ Hits(sm, 17)

\* the last word (1-based) after which the cumulative total is v
LastAt(sm, v) ==
    CHOOSE k \in 1..Len(sm) :
        /\ PrefixSum(sm, k) = v
        /\ \A j \in 1..Len(sm) : PrefixSum(sm, j) = v => j <= k

\* the entries from start offset i (0-based) to the end
Suffix(sm, i) == SubSeq(sm, i + 1, Len(sm))

\* the start offsets whose suffix holds a haiku
AlignedOffsets(sm) == {i \in 0..(Len(sm) - 1) : Aligned(Suffix(sm, i))}

\* the j-th smallest element of the set of integers S
Nth(S, j) == CHOOSE i \in S : Cardinality({k \in S : k < i}) = j - 1

\* the window the j-th Haiku of get_haikus() was found over; j = 0: the whole
\* map, the window of get_haiku()
WindowOf(sm, j) == IF j = 0 THEN sm ELSE Suffix(sm, Nth(AlignedOffsets(sm), j))

AllPositive(sm) == \A i \in 1..Len(sm) : sm[i][1] > 0

\* the words of a line
LineWords(line) == SelectSeq(split_space(line), LAMBDA w : w # <<>>)

RECURSIVE SumSyllables(_)
SumSyllables(words) ==
    IF words = <<>> THEN 0
    ELSE word_syllables(words[1])[1] + SumSyllables(Tail(words))

\* the syllables of a line, word by word
LineSyllables(line) == SumSyllables(LineWords(line))

\* the number of words of the three lines together
WordCount(h) ==
    Len(LineWords(h.lines[1])) + Len(LineWords(h.lines[2]))
        + Len(LineWords(h.lines[3]))

\* three lines with at least one word each, of 5, 7 and 5 syllables
Is575(h) ==
    /\ Len(h.lines) = 3
    /\ \A i \in 1..3 : Len(LineWords(h.lines[i])) >= 1
    /\ LineSyllables(h.lines[1]) = 5
    /\ LineSyllables(h.lines[2]) = 7
    /\ LineSyllables(h.lines[3]) = 5

\* the Haikus the last call returned, each with the place it has in the
\* result (0 for get_haiku)
Returned ==
    IF op = "get_haiku"
    THEN IF IsHaikuObject(ret) THEN {<<0, ret>>} ELSE {}
    ELSE IF op = "get_haikus"
    THEN {<<j, ret[j]>> : j \in 1..Len(ret)}
    ELSE {}

(***************************************************************************)
(* C1.  Every Haiku get_haiku or get_haikus returns has exactly three      *)
(* lines, each with at least one word, whose words' syllable counts sum to *)
(* 5, 7 and 5.  The code breaks this when a word of zero syllables makes   *)
(* two cumulative totals equal.                                            *)
(***************************************************************************)
C1_Every_Haiku_Is_5_7_5 == \A r \in Returned : Is575(r[2])

(***************************************************************************)
(* C2.  get_haiku returns a Haiku exactly when the cumulative totals from  *)
(* word 0 hold 5, 12 and 17, and False otherwise, later start offsets      *)
(* that hold a haiku notwithstanding.                                      *)
(***************************************************************************)
C2_GetHaiku_Iff_Aligned_At_Zero ==
    op = "get_haiku" =>
        LET sm == syllable_map(text)
        IN /\ IsHaikuObject(ret) <=> Aligned(sm)
           /\ ~Aligned(sm) => ret = PyFalse

\* get_haiku returned False for a text that holds a haiku at a later offset
C2_Witness ==
    /\ op = "get_haiku"
    /\ ret = PyFalse
    /\ AlignedOffsets(syllable_map(text)) # {}

(***************************************************************************)
(* C3.  get_haikus returns one Haiku for each start offset whose suffix    *)
(* holds 5, 12 and 17 among its cumulative totals, in increasing order of  *)
(* the offset, and nothing else.                                           *)
(***************************************************************************)
C3_GetHaikus_One_Per_Aligned_Offset ==
    op = "get_haikus" =>
        LET sm == syllable_map(text)
            offsets == AlignedOffsets(sm)
        IN /\ Len(ret) = Cardinality(offsets)
           /\ \A j \in 1..Len(ret) :
                ret[j] = find_haiku(Suffix(sm, Nth(offsets, j)))

\* two overlapping haikus of one text, both returned, the scan having
\* stopped before the last offset
C3_Witness ==
    /\ op = "get_haikus"
    /\ Len(ret) = 2
    /\ ret[1] # ret[2]
    /\ AlignedOffsets(syllable_map(text)) = {0, 1}

(***************************************************************************)
(* C4.  A text of fewer than 17 syllables holds no haiku: get_haiku        *)
(* returns False, has_haiku False and get_haikus the empty list.  (Each    *)
(* implication is written result first: for any other result, the text has *)
(* 17 syllables or more.)                                                  *)
(***************************************************************************)
C4_Below_17_No_Haiku ==
    /\ op = "get_haiku" => ret = PyFalse \/ ~(syllable_count(text) < 17)
    /\ op = "has_haiku" => ret = FALSE \/ ~(syllable_count(text) < 17)
    /\ op = "get_haikus" => ret = <<>> \/ ~(syllable_count(text) < 17)

\* a text of 16 syllables whose totals reach 5 and 12, found to hold none
C4_Witness ==
    /\ op = "get_haiku"
    /\ syllable_count(text) = 16
    /\ Hits(syllable_map(text), 5)
    /\ Hits(syllable_map(text), 12)
    /\ ret = PyFalse

(***************************************************************************)
(* C5, as claimed.  The numbers of words of the three lines of a Haiku add *)
(* up to the number of words of the window it was found over.  It is       *)
(* stated for the windows whose words all have at least one syllable,      *)
(* where the defect of C1 plays no part.                                   *)
(***************************************************************************)
C5_Original_Lines_Cover_Window ==
    \A r \in Returned :
        LET window == WindowOf(syllable_map(text), r[1])
        IN AllPositive(window) => WordCount(r[2]) = Len(window)

(***************************************************************************)
(* C5, amended.  The numbers of words of the three lines add up to at      *)
(* least the number of words of the window up to and including the last    *)
(* word at which the cumulative total is 17, and to exactly that number    *)
(* when every word of the window has at least one syllable; the words of   *)
(* the window after it are in no line.                                     *)
(***************************************************************************)
C5_Lines_Cover_Window_Up_To_17 ==
    \A r \in Returned :
        LET window == WindowOf(syllable_map(text), r[1])
            k == LastAt(window, 17)
        IN /\ WordCount(r[2]) >= k
           /\ AllPositive(window) => WordCount(r[2]) = k

\* a Haiku found over a window of words of at least one syllable, which
\* goes on after the word that reaches 17
C5_Witness ==
    /\ op = "get_haiku"
    /\ IsHaikuObject(ret)
    /\ AllPositive(syllable_map(text))
    /\ LastAt(syllable_map(text), 17) < Len(syllable_map(text))
    /\ WordCount(ret) = LastAt(syllable_map(text), 17)

(***************************************************************************)
(* C6.  A nonword is a token that is not in the dictionary and for which   *)
(* the fallback estimates zero syllables.                                  *)
(***************************************************************************)
IsNonword(token) ==
    LET word == lower(strip(encode_ascii_ignore(token)))
    IN /\ word \notin DOMAIN WORD_DICT
       /\ syllables_en_count(filtered_word(word)) = 0

HasNonword(t) ==
    LET tokens == Tokens(t)
    IN \E i \in 1..Len(tokens) : IsNonword(tokens[i])

(***************************************************************************)
(* C6, as claimed.  A nonword gets exactly one syllable: syllable_map      *)
(* returns one entry for each token of the text, in order, the nonword's   *)
(* with the count 1 and the others with their own counts.                  *)
(***************************************************************************)
C6_Original_Nonword_Counts_One ==
    op = "syllable_map" /\ HasNonword(text) =>
        LET tokens == Tokens(text)
        IN /\ Len(ret) = Len(tokens)
           /\ \A i \in 1..Len(tokens) :
                IF IsNonword(tokens[i])
                THEN ret[i][1] = 1
                ELSE ret[i] = word_syllables(tokens[i])

(***************************************************************************)
(* C6, amended.  For a nonword unknown_word_handler raises NonwordError,   *)
(* which syllable_map catches to return the empty list: the text has no    *)
(* entry for any of its tokens, a syllable count of 0 and no haiku.        *)
(* (Each implication is written result first: for any other result, the    *)
(* text has no nonword.)                                                   *)
(***************************************************************************)
C6_Nonword_Empties_Map ==
    /\ op = "syllable_map" => ret = <<>> \/ ~HasNonword(text)
    /\ op = "syllable_count" => ret = 0 \/ ~HasNonword(text)
    /\ op = "get_haiku" => ret = PyFalse \/ ~HasNonword(text)
    /\ op = "get_haikus" => ret = <<>> \/ ~HasNonword(text)

\* a text of a nonword and of words that have syllables, mapped to nothing
C6_Witness ==
    /\ op = "syllable_map"
    /\ HasNonword(text)
    /\ \E i \in 1..Len(Tokens(text)) :
        /\ ~IsNonword(Tokens(text)[i])
        /\ word_syllables(Tokens(text)[i])[1] > 0
    /\ Len(Tokens(text)) = MaxWords
    /\ ret = <<>>

(***************************************************************************)
(* C7 and C8 are about calculate_quality; its argument is in args.         *)
(***************************************************************************)
RECURSIVE WeightSum(_)
WeightSum(evaluators) ==
    IF evaluators = <<>> THEN 0
    ELSE evaluators[Len(evaluators)][2]
            + WeightSum(SubSeq(evaluators, 1, Len(evaluators) - 1))

RECURSIVE WeightedSum(_)
WeightedSum(evaluators) ==
    IF evaluators = <<>> THEN 0
    ELSE evaluators[Len(evaluators)][2] * evaluators[Len(evaluators)][1].evaluate
            + WeightedSum(SubSeq(evaluators, 1, Len(evaluators) - 1))

C8_Original_Exact_Weighted_Mean ==
    op = "calculate_quality" /\ WeightSum(args) > 0 =>
        ret * WeightSum(args) = WeightedSum(args)

(***************************************************************************)
(* C8, amended.  With integer scores and weights of a positive sum,        *)
(* calculate_quality returns the weighted mean rounded down to an integer  *)
(* (Python 2 integer division): [(E,1)] yields E's score, [(E,1),(F,1)]    *)
(* yields (E(h)+F(h)) div 2.                                               *)
(***************************************************************************)
C8_Floored_Weighted_Mean ==
    op = "calculate_quality" /\ WeightSum(args) > 0 =>
        /\ ret = WeightedSum(args) \div WeightSum(args)
        /\ Len(args) = 1 /\ args[1][2] = 1 => ret = args[1][1].evaluate
        /\ Len(args) = 2 /\ args[1][2] = 1 /\ args[2][2] = 1 =>
              ret = (args[1][1].evaluate + args[2][1].evaluate) \div 2

\* two evaluators of weight 1 whose scores have an odd sum
C8_Witness ==
    /\ op = "calculate_quality"
    /\ Len(args) = 2
    /\ args[1][2] = 1
    /\ args[2][2] = 1
    /\ (args[1][1].evaluate + args[2][1].evaluate) % 2 = 1
    /\ 2 * ret + 1 = args[1][1].evaluate + args[2][1].evaluate

(***************************************************************************)
(* C9.  line_end_bigrams returns two pairs of words that are adjacent in   *)
(* the window the Haiku was found over: the last word at which the         *)
(* cumulative total is 5 (12 for the second pair) and the word after it.   *)
(* The code breaks this where it breaks C1.                                *)
(***************************************************************************)
C9_Bigrams_Are_Adjacent_Words ==
    op = "line_end_bigrams" =>
        LET window == WindowOf(syllable_map(text), idx)
            k5 == LastAt(window, 5)
            k12 == LastAt(window, 12)
        IN ret = << <<window[k5][2], window[k5 + 1][2]>>,
                    <<window[k12][2], window[k12 + 1][2]>> >>

(***************************************************************************)
(* C10, as claimed.  The word of every entry of the syllable map is the    *)
(* token with its letter case, and so are the words of the lines of a      *)
(* Haiku.                                                                  *)
(***************************************************************************)
C10_Original_Case_Kept ==
    /\ op = "syllable_map" /\ ~HasNonword(text) =>
          LET tokens == Tokens(text)
          IN ret = [i \in 1..Len(tokens) |->
                        <<word_syllables(tokens[i])[1], tokens[i]>>]
    /\ \A r \in Returned :
          LET tokens == Tokens(text)
          IN \A i \in 1..3 :
                \A j \in 1..Len(LineWords(r[2].lines[i])) :
                    \E n \in 1..Len(tokens) :
                        LineWords(r[2].lines[i])[j] = tokens[n]

(***************************************************************************)
(* C10, amended.  The word of every entry of the syllable map is the token *)
(* in lower case (word_syllables returns the form it looked up), and every *)
(* line of a Haiku is a run of consecutive tokens of the text in lower     *)
(* case, joined by single spaces.                                          *)
(***************************************************************************)
C10_Words_Are_Lowercased ==
    /\ op = "syllable_map" /\ ~HasNonword(text) =>
          LET tokens == Tokens(text)
          IN /\ Len(ret) = Len(tokens)
             /\ \A i \in 1..Len(ret) : ret[i][2] = lower(tokens[i])
    /\ \A r \in Returned :
          LET tokens == Tokens(text)
              lowered == [n \in 1..Len(tokens) |-> lower(tokens[n])]
          IN \A i \in 1..3 :
                \E a \in 1..Len(lowered) : \E b \in a..Len(lowered) :
                    r[2].lines[i] = join(SubSeq(lowered, a, b))

\* a Haiku found in a text with a capital letter in the tokens of its
\* first line
C10_Witness ==
    /\ op = "get_haiku"
    /\ IsHaikuObject(ret)
    /\ Tokens(text)[1] # lower(Tokens(text)[1])
    /\ LineWords(ret.lines[1])[1] = lower(Tokens(text)[1])

=============================================================================
